---- MODULE Spec2Model ----
(***************************************************************************)
(* Episodic memory engine of orb-backend (src/src/memory_v2.py and         *)
(* src/src/config.py): reflection parsing, per-user collections in the     *)
(* vector store, hybrid retrieval with score fusion, and the directive     *)
(* built from the retrieved episodes.                                      *)
(*                                                                         *)
(* Python values are modelled as follows: a str that the code searches or  *)
(* slices is a sequence of one-character strings, any other str is a TLA+  *)
(* string; a list or a tuple is a sequence; a dict is a function whose     *)
(* domain is its set of keys; an object is a record of its attributes.     *)
(* The floating point scores of hybrid_merge are modelled as exact         *)
(* rationals over a common denominator (see ScoreOf).                      *)
(*                                                                         *)
(* memory_v2.py line 3 imports init_user_collection from config.py, which  *)
(* defines no such name (its lines 121-129 are comments): importing        *)
(* memory_v2 raises ImportError and none of its functions comes to exist.  *)
(* Spec is the repository as it is: config.py, whose get_user_memory       *)
(* works, and the import of memory_v2, which fails for every caller.       *)
(* SpecBody, SpecMerge and SpecParse are the bodies of the functions of    *)
(* memory_v2.py as the file writes them, loaded with every name of its     *)
(* imports bound except init_user_collection; each request to the store,   *)
(* the summarization capability or the embedding capability is one step    *)
(* of its caller.                                                          *)
(***************************************************************************)
EXTENDS Integers, Sequences, FiniteSets, TLC

VARIABLES
    \* the vector store behind qdrant_client: collection name -> list of points
    store,
    \* the next fresh uuid4 (memory_v2.py line 126)
    nextId,
    \* history: owner[id] is the user_id point id was written under
    owner,
    \* per concurrent caller: the function it runs and its position in it
    op, pc,
    \* the arguments user_id, messages, query and alpha of the call
    uid, msgs, query, r_alpha,
    \* the locals reflection and embedding of add_episodic_memory
    refl, emb,
    \* the locals vector_results and keyword_results of episodic_recall
    vector_results, keyword_results,
    \* the exception the call raised and the value it returned
    err, ret,
    \* one call of hybrid_merge and of the truncation of episodic_recall: the
    \* position, the arguments, the dict scores, the fused and the returned list
    m_pc, m_vec, m_kw, m_alpha, m_scores, m_out, m_top,
    \* one call of RobustJsonParser.parse: position, argument, return value
    p_pc, p_text, p_res

callVars == <<op, pc, uid, msgs, query, r_alpha, refl, emb,
              vector_results, keyword_results, err, ret>>
storeVars == <<store, nextId, owner, callVars>>
mergeVars == <<m_pc, m_vec, m_kw, m_alpha, m_scores, m_out, m_top>>
parseVars == <<p_pc, p_text, p_res>>
vars == <<storeVars, mergeVars, parseVars>>

-----------------------------------------------------------------------------
(* Bounds of the model *)

\* alpha is counted in steps of 1/AlphaDen, AlphaDen = 2 * AlphaSteps, so that
\* the default alpha=0.5 of episodic_recall is AlphaSteps/AlphaDen
AlphaSteps == 1
AlphaDen == 2 * AlphaSteps
\* native scores range over 0/ScoreDen .. ScoreDen/ScoreDen
ScoreDen == 2
\* longest similarity result list given to hybrid_merge on its own
MaxVec == 2
\* longest keyword result list given to hybrid_merge on its own
MaxKw == 3

\* identifiers of the points given to hybrid_merge on its own
MergeIds == {"a", "b", "c", "d"}

Alphas == 0..AlphaDen
Scores == 0..ScoreDen

-----------------------------------------------------------------------------
(* Python helpers *)

Max(a, b) == IF a >= b THEN a ELSE b
Min(a, b) == IF a <= b THEN a ELSE b

\* d.get(k, default)
PyGet(d, k, default) == IF k \in DOMAIN d THEN d[k] ELSE default

\* seq[lo:hi]: a negative index counts from the end, and both are clamped
\* to 0..len(seq)
PyIndex(seq, i) == IF i < 0 THEN Max(Len(seq) + i, 0) ELSE Min(i, Len(seq))

PySlice(seq, lo, hi) ==
    LET l == PyIndex(seq, lo)
        h == PyIndex(seq, hi)
    IN  IF l >= h THEN <<>> ELSE SubSeq(seq, l + 1, h)

\* sep.join(strs)
RECURSIVE PyJoin(_, _)
PyJoin(strs, sep) ==
    IF Len(strs) = 0 THEN ""
    ELSE IF Len(strs) = 1 THEN strs[1]
    ELSE strs[1] \o sep \o PyJoin(Tail(strs), sep)

\* the injective sequences over S of length at most n: result lists of the
\* store, which never returns the same point twice in one answer
RECURSIVE InjSeqs(_, _)
InjSeqs(S, n) ==
    IF n = 0 THEN {<<>>}
    ELSE LET shorter == InjSeqs(S, n - 1)
         IN  shorter \cup
             {Append(s, x) : <<s, x>> \in
                 {<<s, x>> \in shorter \X S :
                     Len(s) = n - 1 /\ \A i \in 1..Len(s) : s[i] # x}}

-----------------------------------------------------------------------------
(* hybrid_merge *)

\* Every score of one hybrid_merge call is kept as an integer multiple of
\* 1 / (AlphaDen * ScoreDen * len(keyword_res)); alpha is alphaN / AlphaDen,
\* a native score is score / ScoreDen and bm25_score is (idx+1)/len(keyword_res).
BmDen(keyword_res) == Max(1, Len(keyword_res))

\* alpha * (1 - item.score)
VectorTerm(item, alpha, keyword_res) ==
    alpha * (ScoreDen - item.score) * BmDen(keyword_res)

KeywordWeightSwapped(alpha) == alpha

\* the weight (1 - alpha) of the keyword contribution
KeywordWeight(alpha) == AlphaDen - alpha

\* (1 - alpha) * bm25_score, bm25_score = (idx + 1) / len(keyword_res),
\* idx counted from 0 (so idx + 1 is the position i counted from 1)
KeywordTerm(i, alpha, keyword_res) == KeywordWeight(alpha) * i * ScoreDen

\* for idx, item in enumerate(vector_res): scores[item.id] = ...
RECURSIVE VectorLoop(_, _, _, _, _)
VectorLoop(vector_res, keyword_res, alpha, i, scores) ==
    IF i > Len(vector_res) THEN scores
    ELSE LET item == vector_res[i]
             v == VectorTerm(item, alpha, keyword_res)
             dom == DOMAIN scores \cup {item.id}
         IN  VectorLoop(vector_res, keyword_res, alpha, i + 1,
                 [k \in dom |-> IF k = item.id THEN v ELSE scores[k]])

KeywordAccumulateOverwrite(scores, id, term) ==
    [k \in DOMAIN scores \cup {id} |-> IF k = id THEN term ELSE scores[k]]

\* if item.id in scores: scores[item.id] += term  else: scores[item.id] = term
KeywordAccumulate(scores, id, term) ==
    [k \in DOMAIN scores \cup {id} |->
        IF k = id
        THEN (IF id \in DOMAIN scores THEN scores[id] + term ELSE term)
        ELSE scores[k]]

\* for idx, item in enumerate(keyword_res): ...
RECURSIVE KeywordLoop(_, _, _, _)
KeywordLoop(keyword_res, alpha, i, scores) ==
    IF i > Len(keyword_res) THEN scores
    ELSE KeywordLoop(keyword_res, alpha, i + 1,
             KeywordAccumulate(scores, keyword_res[i].id,
                               KeywordTerm(i, alpha, keyword_res)))

\* the dict scores after both loops
MergeScores(vector_res, keyword_res, alpha) ==
    KeywordLoop(keyword_res, alpha, 1,
        VectorLoop(vector_res, keyword_res, alpha, 1, <<>>))

\* all_items = {item.id: item for item in vector_res + keyword_res}, as the
\* list all_items.values(): a key keeps the position of its first insertion
\* and the value of its last one
RECURSIVE DictValues(_, _, _)
DictValues(items, i, acc) ==
    IF i > Len(items) THEN acc
    ELSE LET item == items[i]
             seen == \E j \in 1..Len(acc) : acc[j].id = item.id
         IN  DictValues(items, i + 1,
                 IF seen
                 THEN [j \in 1..Len(acc) |->
                          IF acc[j].id = item.id THEN item ELSE acc[j]]
                 ELSE Append(acc, item))

AllItems(vector_res, keyword_res) == DictValues(vector_res \o keyword_res, 1, <<>>)

\* scores.get(x.id, 0)
ScoreOf(scores, x) == PyGet(scores, x.id, 0)

\* one insertion of the stable descending sort: x goes behind every element
\* whose key is at least its own (sorted(..., reverse=True) keeps the
\* original order of elements with equal keys)
InsertDescending(sorted, x, scores) ==
    LET k == Cardinality({j \in 1..Len(sorted) :
                            ScoreOf(scores, sorted[j]) >= ScoreOf(scores, x)})
    IN  SubSeq(sorted, 1, k) \o <<x>> \o SubSeq(sorted, k + 1, Len(sorted))

\* sorted(all_items.values(), key=lambda x: scores.get(x.id, 0), reverse=True)
RECURSIVE SortedItems(_, _, _, _)
SortedItems(items, scores, i, acc) ==
    IF i > Len(items) THEN acc
    ELSE SortedItems(items, scores, i + 1, InsertDescending(acc, items[i], scores))

hybrid_merge(vector_res, keyword_res, alpha) ==
    SortedItems(AllItems(vector_res, keyword_res),
                MergeScores(vector_res, keyword_res, alpha), 1, <<>>)

\* the number of results episodic_recall returns
TopN == 3

NoTruncation(combined) == combined

\* combined[:3]
Truncate(combined) == PySlice(combined, 0, TopN)

-----------------------------------------------------------------------------
(* RobustJsonParser.parse *)

\* text.find(ch): the first index of ch counted from 0, or -1
PyFind(text, ch) ==
    IF \E i \in 1..Len(text) : text[i] = ch
    THEN (CHOOSE i \in 1..Len(text) :
             text[i] = ch /\ \A j \in 1..(i - 1) : text[j] # ch) - 1
    ELSE -1

\* text.rfind(ch): the last index of ch counted from 0, or -1
PyRFind(text, ch) ==
    IF \E i \in 1..Len(text) : text[i] = ch
    THEN (CHOOSE i \in 1..Len(text) :
             text[i] = ch /\ \A j \in (i + 1)..Len(text) : text[j] # ch) - 1
    ELSE -1

\* json.loads(s) as memory_v2.py evaluates it: the module never imports json
\* (its imports are lines 1-9), so looking the name up raises NameError
\* whatever s is
json_loads(s) == [raised |-> TRUE, msg |-> "name 'json' is not defined", value |-> <<>>]

\* stands for the four-character prefix of the error text of line 82 (the
\* characters are outside the character set of a TLA+ string)
ParseFailedPrefix == "parse failed: "

\* RobustJsonParser.parse(text)
parse(text) ==
    LET start == PyFind(text, "{")
        end == PyRFind(text, "}") + 1
        r == json_loads(PySlice(text, start, end))
    IN  IF r.raised
        THEN [error |-> ParseFailedPrefix \o r.msg, raw |-> text]
        ELSE r.value

-----------------------------------------------------------------------------
(* Collections, transcripts and the external capabilities *)

\* concurrent callers of the engine
Procs == {1, 2}
\* the callers that read: a read changes nothing in the store, so reads do
\* not affect each other and one reader meets every interleaving with the
\* writes of the other callers
Readers == {1}
\* points the store may come to hold
MaxPoints == 2


UserIds == {"u1", "u2"}

BASE_COLLECTION_NAME == "memory_orb"

get_collection_name_shared(user_id) == BASE_COLLECTION_NAME

\* f"{BASE_COLLECTION_NAME}_{user_id}"
get_collection_name(user_id) == BASE_COLLECTION_NAME \o "_" \o user_id

\* message.type.upper()
Upper(type) ==
    CASE type = "system" -> "SYSTEM"
      [] type = "human" -> "HUMAN"
      [] type = "ai" -> "AI"

\* transcripts given to add_episodic_memory; the first message is the system
\* message
Transcripts ==
    { << [type |-> "system", content |-> "cat"],
         [type |-> "human", content |-> "dog"] >>,
      << [type |-> "system", content |-> "setup"],
         [type |-> "human", content |-> "cat"],
         [type |-> "ai", content |-> "dog"] >> }

Queries == {"cat"}

\* the lines format_conversation joins with "\n": messages[1:], each line
\* f"{message.type.upper()}: {message.content}" kept as its two parts
ConversationLines(messages) ==
    LET rest == PySlice(messages, 1, Len(messages))
    IN  [i \in 1..Len(rest) |->
            [role |-> Upper(rest[i].type), content |-> rest[i].content]]

\* format_conversation(messages): the text "\n".join(lines), kept as the
\* sequence of its lines, which is what the keyword scan looks at
format_conversation(messages) == ConversationLines(messages)

\* answers of the summarization capability, as characters
LlmTexts ==
    { <<"n", "o">>,
      <<"{", "\"", "a", "\"", ":", "1", "}">> }

\* answers of the embedding capability to requests.post: unreachable, a
\* non-success status, and success with an empty or a one-element embedding
EmbedResponses ==
    { [reachable |-> FALSE, status_code |-> 0, text |-> "", embedding |-> <<>>],
      [reachable |-> TRUE, status_code |-> 500, text |-> "down", embedding |-> <<>>],
      [reachable |-> TRUE, status_code |-> 200, text |-> "", embedding |-> <<>>],
      [reachable |-> TRUE, status_code |-> 200, text |-> "", embedding |-> <<"vec">>] }

NoVector == "none"
NoError == ""

\* embed_text(text)[0]: the outcome of line 122 for one answer of the
\* embedding capability
embed_first_unchecked(resp) ==
    IF ~resp.reachable
    THEN [raised |-> TRUE, error |-> "ConnectionError", value |-> NoVector]
    ELSE IF Len(resp.embedding) = 0
    THEN [raised |-> FALSE, error |-> NoError, value |-> NoVector]
    ELSE [raised |-> FALSE, error |-> NoError, value |-> resp.embedding[1]]

embed_first(resp) ==
    IF ~resp.reachable
    THEN [raised |-> TRUE, error |-> "ConnectionError", value |-> NoVector]
    ELSE IF resp.status_code # 200
    THEN [raised |-> TRUE, error |-> "Exception: Ollama API: " \o resp.text,
          value |-> NoVector]
    ELSE IF Len(resp.embedding) = 0
    THEN [raised |-> TRUE, error |-> "IndexError", value |-> NoVector]
    ELSE [raised |-> FALSE, error |-> NoError, value |-> resp.embedding[1]]

\* the payload of the point built at lines 125-135
Payload(conversation, reflection) ==
    [conversation |-> conversation,
     context_tags |-> PyGet(reflection, "context_tags", <<>>),
     conversation_summary |-> PyGet(reflection, "conversation_summary", ""),
     what_worked |-> PyGet(reflection, "what_worked", ""),
     what_to_avoid |-> PyGet(reflection, "what_to_avoid", "")]


\* the ids of all points of all collections
AllIds(st) == UNION {{st[c][i].id : i \in 1..Len(st[c])} : c \in DOMAIN st}

\* qdrant_client.collection_exists(collection_name)
collection_exists(st, name) == name \in DOMAIN st

\* the store creates collection name, empty
create_collection(st, name) ==
    [c \in DOMAIN st \cup {name} |-> IF c = name THEN <<>> ELSE st[c]]

\* import of memory_v2: line 3 asks config.py for init_user_collection,
\* which config.py does not define (only the comment of its lines 121-129
\* spells it)
import_memory_v2 ==
    [raised |-> TRUE,
     error |-> "ImportError: cannot import name 'init_user_collection'"]

\* init_user_collection(user_id) at line 111 in the body of
\* add_episodic_memory: the name is bound to nothing
init_user_collection(st, user_id) ==
    [raised |-> TRUE,
     error |-> "NameError: name 'init_user_collection' is not defined",
     store |-> st]

\* qdrant_client.upsert(collection_name, points=[point]) with a fresh id
upsert(st, name, point) == [st EXCEPT ![name] = Append(@, point)]

-----------------------------------------------------------------------------
(* The two read paths of the store, episodic_recall, episodic_system_prompt *)

\* limit=5 of the search and of the scroll
SearchLimit == 5

\* scores the store may give a point in the model of the whole engine
StoreScores == {0, ScoreDen}

\* MatchText(text=query) on the payload field "conversation": what some
\* turn of the transcript says is the query
MatchText(conversation, q) ==
    \E i \in 1..Len(conversation) : conversation[i].content = q

\* the store's ranking: descending by score, store order among equal scores
RECURSIVE RankByScore(_, _, _)
RankByScore(items, i, acc) ==
    IF i > Len(items) THEN acc
    ELSE LET x == items[i]
             k == Cardinality({j \in 1..Len(acc) : acc[j].score >= x.score})
         IN  RankByScore(items, i + 1,
                 SubSeq(acc, 1, k) \o <<x>> \o SubSeq(acc, k + 1, Len(acc)))

\* qdrant_client.search(collection_name, query_vector, limit=5): the list of
\* scored points; sc[i] is the score the store gives the i-th point for the
\* query vector
search(points, sc) ==
    PySlice(RankByScore([i \in 1..Len(points) |->
                            [id |-> points[i].id, score |-> sc[i],
                             payload |-> points[i].payload]], 1, <<>>),
            0, SearchLimit)

RECURSIVE FilterMatch(_, _, _, _)
FilterMatch(points, q, i, acc) ==
    IF i > Len(points) THEN acc
    ELSE FilterMatch(points, q, i + 1,
             IF MatchText(points[i].payload.conversation, q)
             THEN Append(acc, [id |-> points[i].id, payload |-> points[i].payload])
             ELSE acc)

\* Python objects that are not points: a list, None, a point id
PyList(items) == [list |-> items]
PyNone == [none |-> TRUE]
PyId(id) == [value |-> id]

\* qdrant_client.scroll(collection_name, scroll_filter, limit=5): the client
\* answers the pair (records, next_page_offset), the records that match in
\* store order and the id of the first record left out, or None
scroll(points, q) ==
    LET matching == FilterMatch(points, q, 1, <<>>)
    IN  << PyList(PySlice(matching, 0, SearchLimit)),
           IF Len(matching) > SearchLimit
           THEN PyId(matching[SearchLimit + 1].id) ELSE PyNone >>

\* hasattr(item, "id")
HasAttrId(item) == "id" \in DOMAIN item

\* item.id of lines 178 and 182 raises AttributeError for an item that is not
\* a point
hybrid_merge_raises(vector_res, keyword_res) ==
    \/ \E i \in 1..Len(vector_res) : ~HasAttrId(vector_res[i])
    \/ \E i \in 1..Len(keyword_res) : ~HasAttrId(keyword_res[i])

\* lines 167-172 of episodic_recall for the two answers of the store:
\* keyword_res is what scroll answered, not unpacked
episodic_recall(vector_res, keyword_res, alpha) ==
    IF hybrid_merge_raises(vector_res, keyword_res)
    THEN [raised |-> TRUE,
          error |-> "AttributeError: 'list' object has no attribute 'id'",
          memories |-> <<>>]
    ELSE [raised |-> FALSE, error |-> NoError,
          memories |-> Truncate(hybrid_merge(vector_res, keyword_res, alpha))]

\* "You are a helpful AI Assistant.", the directive without memory
GenericDirective ==
    [memory |-> FALSE, tags |-> "", insight |-> "", avoid |-> "", history |-> ""]

\* memories[1:4]
HistorySlice(memories) == PySlice(memories, 1, 4)

\* the f-string of lines 205-212, kept as the four texts it puts into the
\* fixed template
Directive(current_memory, previous_convos) ==
    [memory |-> TRUE,
     tags |-> PyJoin(current_memory.context_tags, ", "),
     insight |-> current_memory.what_worked,
     avoid |-> current_memory.what_to_avoid,
     history |-> PyJoin(previous_convos, " | ")]

\* lines 199-213 of episodic_system_prompt for the memories episodic_recall
\* returned
episodic_system_prompt(memories) ==
    LET hist == HistorySlice(memories)
        previous_convos ==
            [i \in 1..Len(hist) |-> hist[i].payload.conversation_summary]
    IN  IF Len(memories) = 0
        THEN [content |-> GenericDirective, history |-> <<>>]
        ELSE [content |-> Directive(memories[1].payload, previous_convos),
              history |-> previous_convos]

Ids(items) == [i \in 1..Len(items) |-> items[i].id]

\* the point of lines 125-135; id is the fresh uuid4
Point(id, embedding, messages, reflection) ==
    [id |-> id, vector |-> embedding,
     payload |-> Payload(format_conversation(messages), reflection)]

-----------------------------------------------------------------------------
(* The engine: concurrent callers, one step per request *)

NoRet == [memories |-> <<>>, content |-> GenericDirective, history |-> <<>>]

\* the store with the collections of names, empty
EmptyCollections(names) == [c \in names |-> <<>>]

\* the collections of users the store may hold from earlier runs
EarlierCollections == SUBSET {get_collection_name(u) : u \in UserIds}

\* config.py line 94, memory = Memory.from_config(config), has run when
\* config is imported: the store has the collection BASE_COLLECTION_NAME of
\* config, besides the collections in earlier
InitStore(earlier) ==
    /\ store = EmptyCollections({BASE_COLLECTION_NAME} \cup earlier)
    /\ nextId = 1
    /\ owner = <<>>

InitCalls ==
    /\ op = [p \in Procs |-> "none"]
    /\ pc = [p \in Procs |-> "idle"]
    /\ uid = [p \in Procs |-> ""]
    /\ msgs = [p \in Procs |-> <<>>]
    /\ query = [p \in Procs |-> ""]
    /\ r_alpha = [p \in Procs |-> 0]
    /\ refl = [p \in Procs |-> <<>>]
    /\ emb = [p \in Procs |-> NoVector]
    /\ vector_results = [p \in Procs |-> <<>>]
    /\ keyword_results = [p \in Procs |-> <<>>]
    /\ err = [p \in Procs |-> NoError]
    /\ ret = [p \in Procs |-> NoRet]

InitMergeIdle ==
    /\ m_pc = "idle" /\ m_vec = <<>> /\ m_kw = <<>> /\ m_alpha = 0
    /\ m_scores = <<>> /\ m_out = <<>> /\ m_top = <<>>

InitParseIdle == p_pc = "idle" /\ p_text = <<>> /\ p_res = <<>>

Init ==
    /\ \E earlier \in EarlierCollections : InitStore(earlier)
    /\ InitCalls /\ InitMergeIdle /\ InitParseIdle

\* owner[id] is the user_id under which point id was written
Owned(id, u) == [i \in DOMAIN owner \cup {id} |-> IF i = id THEN u ELSE owner[i]]

Resting(p) == pc[p] \in {"idle", "done", "failed"}
Writing == {p \in Procs : ~Resting(p) /\ op[p] = "add"}

\* a function is entered with its arguments; the locals are unset
Enter(p, f, at, u, m, q, alpha) ==
    /\ Resting(p)
    /\ op' = [op EXCEPT ![p] = f]
    /\ pc' = [pc EXCEPT ![p] = at]
    /\ uid' = [uid EXCEPT ![p] = u]
    /\ msgs' = [msgs EXCEPT ![p] = m]
    /\ query' = [query EXCEPT ![p] = q]
    /\ r_alpha' = [r_alpha EXCEPT ![p] = alpha]
    /\ err' = [err EXCEPT ![p] = NoError]
    /\ ret' = [ret EXCEPT ![p] = NoRet]
    /\ UNCHANGED <<refl, emb, vector_results, keyword_results>>
    /\ UNCHANGED <<store, nextId, owner, mergeVars, parseVars>>

\* the call goes on to position at
Goto(p, at) ==
    /\ pc' = [pc EXCEPT ![p] = at]
    /\ UNCHANGED <<op, uid, msgs, query, r_alpha, err, ret>>

\* the arguments and locals of a call are gone when it returns or raises
Leave(p, state, error, value) ==
    /\ pc' = [pc EXCEPT ![p] = state]
    /\ err' = [err EXCEPT ![p] = error]
    /\ ret' = [ret EXCEPT ![p] = value]
    /\ op' = [op EXCEPT ![p] = "none"]
    /\ uid' = [uid EXCEPT ![p] = ""]
    /\ msgs' = [msgs EXCEPT ![p] = <<>>]
    /\ query' = [query EXCEPT ![p] = ""]
    /\ r_alpha' = [r_alpha EXCEPT ![p] = 0]
    /\ refl' = [refl EXCEPT ![p] = <<>>]
    /\ emb' = [emb EXCEPT ![p] = NoVector]
    /\ vector_results' = [vector_results EXCEPT ![p] = <<>>]
    /\ keyword_results' = [keyword_results EXCEPT ![p] = <<>>]

\* config.get_user_memory(user_id) is entered: Memory.from_config opens the
\* vector store of the user's config, whose collection_name is
\* get_collection_name(user_id)
GetUserMemory(p, u) == Enter(p, "memory", "list_cols", u, <<>>, "", 0)

\* the vector store of the Memory looks for its collection among those of
\* the store
ListCols(p) ==
    /\ pc[p] = "list_cols"
    /\ IF collection_exists(store, get_collection_name(uid[p]))
       THEN Leave(p, "done", NoError, NoRet)
       ELSE /\ Goto(p, "create_col")
            /\ UNCHANGED <<refl, emb, vector_results, keyword_results>>
    /\ UNCHANGED <<store, nextId, owner, mergeVars, parseVars>>

\* and creates it when it found none; the store refuses to create a
\* collection that exists
CreateCol(p) ==
    /\ pc[p] = "create_col"
    /\ IF collection_exists(store, get_collection_name(uid[p]))
       THEN /\ Leave(p, "failed", "UnexpectedResponse: collection already exists",
                     NoRet)
            /\ UNCHANGED store
       ELSE /\ store' = create_collection(store, get_collection_name(uid[p]))
            /\ Leave(p, "done", NoError, NoRet)
    /\ UNCHANGED <<nextId, owner, mergeVars, parseVars>>

\* a caller imports memory_v2 for one of its functions
ImportMemoryV2(p) ==
    /\ Resting(p)
    /\ import_memory_v2.raised
    /\ Leave(p, "failed", import_memory_v2.error, NoRet)
    /\ UNCHANGED <<store, nextId, owner, mergeVars, parseVars>>

\* add_episodic_memory(messages, user_id) is entered
Call(p, u, m) ==
    /\ (nextId - 1) + Cardinality(Writing) < MaxPoints
    /\ Enter(p, "add", "exists", u, m, "", 0)

\* line 110: if not qdrant_client.collection_exists(collection_name)
CheckExists(p) ==
    /\ pc[p] = "exists"
    /\ Goto(p, IF collection_exists(store, get_collection_name(uid[p]))
               THEN "reflect" ELSE "init")
    /\ UNCHANGED <<refl, emb, vector_results, keyword_results>>
    /\ UNCHANGED <<store, nextId, owner, mergeVars, parseVars>>

\* line 111: init_user_collection(user_id)
InitCollection(p) ==
    /\ pc[p] = "init"
    /\ LET r == init_user_collection(store, uid[p])
       IN  /\ store' = r.store
           /\ IF r.raised
              THEN Leave(p, "failed", r.error, NoRet)
              ELSE /\ Goto(p, "reflect")
                   /\ UNCHANGED <<refl, emb, vector_results, keyword_results>>
    /\ UNCHANGED <<nextId, owner, mergeVars, parseVars>>

\* lines 117-121: the summarization capability answers text, and the chain
\* of creat_reflection_prompt ends in RobustJsonParser, whose parse gives
\* the reflection
Reflect(p, text) ==
    /\ pc[p] = "reflect"
    /\ refl' = [refl EXCEPT ![p] = parse(text)]
    /\ Goto(p, "embed")
    /\ UNCHANGED <<emb, vector_results, keyword_results>>
    /\ UNCHANGED <<store, nextId, owner, mergeVars, parseVars>>

\* line 122: embedding = embed_text([summary])[0]
Embed(p, resp) ==
    /\ pc[p] = "embed"
    /\ LET r == embed_first(resp)
       IN  IF r.raised
           THEN Leave(p, "failed", r.error, NoRet)
           ELSE /\ emb' = [emb EXCEPT ![p] = r.value]
                /\ Goto(p, "upsert")
                /\ UNCHANGED <<refl, vector_results, keyword_results>>
    /\ UNCHANGED <<store, nextId, owner, mergeVars, parseVars>>

\* lines 125-141: the point gets a fresh uuid4 and is upserted
Upsert(p) ==
    /\ pc[p] = "upsert"
    /\ store' = upsert(store, get_collection_name(uid[p]),
                       Point(nextId, emb[p], msgs[p], refl[p]))
    /\ owner' = Owned(nextId, uid[p])
    /\ nextId' = nextId + 1
    /\ Leave(p, "done", NoError, NoRet)
    /\ UNCHANGED <<mergeVars, parseVars>>

\* alpha of the reads of the engine: 0, the default 0.5 and 1
RecallAlphas == {0, AlphaSteps, AlphaDen}

\* episodic_recall(query, user_id, alpha) is entered
Recall(p, u, q, alpha) == Enter(p, "recall", "embed_query", u, <<>>, q, alpha)

\* episodic_system_prompt(query, user_id) is entered and calls
\* episodic_recall(query, user_id), alpha being the default 0.5
SystemPrompt(p, u, q) ==
    Enter(p, "prompt", "embed_query", u, <<>>, q, AlphaSteps)

\* line 148: vector = embedder_info.embed_query(query), a request that
\* answers (ok) or raises
EmbedQuery(p, ok) ==
    /\ pc[p] = "embed_query"
    /\ IF ok
       THEN /\ Goto(p, "search")
            /\ UNCHANGED <<refl, emb, vector_results, keyword_results>>
       ELSE Leave(p, "failed", "APIConnectionError", NoRet)
    /\ UNCHANGED <<store, nextId, owner, mergeVars, parseVars>>

\* the scores the store may give the points of u's collection
ScoreChoices(u) ==
    LET name == get_collection_name(u)
        n == IF name \in DOMAIN store THEN Len(store[name]) ELSE 0
    IN  [1..n -> StoreScores]

\* lines 154-158: vector_results = qdrant_client.search(...); the store
\* refuses to search a collection that does not exist
Search(p, sc) ==
    /\ pc[p] = "search"
    /\ IF collection_exists(store, get_collection_name(uid[p]))
       THEN /\ vector_results' = [vector_results EXCEPT ![p] =
                    search(store[get_collection_name(uid[p])], sc)]
            /\ Goto(p, "scroll")
            /\ UNCHANGED <<refl, emb, keyword_results>>
       ELSE Leave(p, "failed", "UnexpectedResponse: collection not found", NoRet)
    /\ UNCHANGED <<store, nextId, owner, mergeVars, parseVars>>

\* lines 160-164: keyword_results = qdrant_client.scroll(...)
Scroll(p) ==
    /\ pc[p] = "scroll"
    /\ IF collection_exists(store, get_collection_name(uid[p]))
       THEN /\ keyword_results' = [keyword_results EXCEPT ![p] =
                    scroll(store[get_collection_name(uid[p])], query[p])]
            /\ Goto(p, "merge")
            /\ UNCHANGED <<refl, emb, vector_results>>
       ELSE Leave(p, "failed", "UnexpectedResponse: collection not found", NoRet)
    /\ UNCHANGED <<store, nextId, owner, mergeVars, parseVars>>

\* lines 167-172, and for episodic_system_prompt lines 199-213 on what
\* episodic_recall returned
Merge(p) ==
    /\ pc[p] = "merge"
    /\ LET r == episodic_recall(vector_results[p], keyword_results[p], r_alpha[p])
           d == episodic_system_prompt(r.memories)
       IN  IF r.raised
           THEN Leave(p, "failed", r.error, NoRet)
           ELSE IF op[p] = "recall"
           THEN Leave(p, "done", NoError, [NoRet EXCEPT !.memories = r.memories])
           ELSE Leave(p, "done", NoError,
                      [memories |-> r.memories, content |-> d.content,
                       history |-> d.history])
    /\ UNCHANGED <<store, nextId, owner, mergeVars, parseVars>>

\* the repository as it is
Next ==
    \/ \E p \in Procs, u \in UserIds : GetUserMemory(p, u)
    \/ \E p \in Procs : ListCols(p)
    \/ \E p \in Procs : CreateCol(p)
    \/ \E p \in Procs : ImportMemoryV2(p)

Spec == Init /\ [][Next]_vars

\* the bodies of the functions of memory_v2.py
NextBody ==
    \/ \E p \in Procs, u \in UserIds : GetUserMemory(p, u)
    \/ \E p \in Procs : ListCols(p)
    \/ \E p \in Procs : CreateCol(p)
    \/ \E p \in Procs, u \in UserIds, m \in Transcripts : Call(p, u, m)
    \/ \E p \in Procs : CheckExists(p)
    \/ \E p \in Procs : InitCollection(p)
    \/ \E p \in Procs, text \in LlmTexts : Reflect(p, text)
    \/ \E p \in Procs, resp \in EmbedResponses : Embed(p, resp)
    \/ \E p \in Procs : Upsert(p)
    \/ \E p \in Readers, u \in UserIds, q \in Queries, alpha \in RecallAlphas :
          Recall(p, u, q, alpha)
    \/ \E p \in Readers, u \in UserIds, q \in Queries : SystemPrompt(p, u, q)
    \/ \E p \in Procs, ok \in BOOLEAN : EmbedQuery(p, ok)
    \/ \E p \in Procs : \E sc \in ScoreChoices(uid[p]) : Search(p, sc)
    \/ \E p \in Procs : Scroll(p)
    \/ \E p \in Procs : Merge(p)

SpecBody == Init /\ [][NextBody]_vars

-----------------------------------------------------------------------------
(* hybrid_merge and the truncation of episodic_recall on given result lists *)

\* similarity results as the store ranks them: distinct points, scores
\* descending
VectorLists ==
    UNION {{[i \in 1..Len(s) |-> [id |-> s[i], score |-> f[i]]] :
               f \in {g \in [1..Len(s) -> Scores] :
                         \A i \in 1..Len(s), j \in 1..Len(s) :
                             i < j => g[i] >= g[j]}} :
           s \in InjSeqs(MergeIds, MaxVec)}

\* keyword results in scan order: distinct points
KeywordLists ==
    {[i \in 1..Len(s) |-> [id |-> s[i]]] : s \in InjSeqs(MergeIds, MaxKw)}

InitMerge ==
    /\ InitStore({}) /\ InitCalls /\ InitParseIdle
    /\ m_pc = "call"
    /\ m_vec \in VectorLists
    /\ m_kw \in KeywordLists
    /\ m_alpha \in Alphas
    /\ m_scores = <<>> /\ m_out = <<>> /\ m_top = <<>>

\* lines 167-172: combined = hybrid_merge(...); return combined[:3]
Fuse ==
    /\ m_pc = "call"
    /\ m_scores' = MergeScores(m_vec, m_kw, m_alpha)
    /\ m_out' = hybrid_merge(m_vec, m_kw, m_alpha)
    /\ m_top' = Truncate(m_out')
    /\ m_pc' = "done"
    /\ UNCHANGED <<m_vec, m_kw, m_alpha, storeVars, parseVars>>

NextMerge == Fuse

SpecMerge == InitMerge /\ [][NextMerge]_vars

-----------------------------------------------------------------------------
(* RobustJsonParser.parse on given answers of the summarization capability *)

\* text around the JSON object of an answer
Prose == { <<>>, <<"x">>, <<"x", "y">>, <<"}">>, <<"{">>, <<"x", "}">> }

\* the middle of an answer: JSON objects and other text
Bodies ==
    { <<"{", "}">>,
      <<"{", "\"", "a", "\"", ":", "1", "}">>,
      <<"{", "\"", "a", "\"", ":", "{", "}", "}">>,
      <<"n", "o">>,
      <<"{", "a">>,
      <<>> }

ParseTexts == {pre \o body \o post : pre \in Prose, body \in Bodies, post \in Prose}

InitParse ==
    /\ InitStore({}) /\ InitCalls /\ InitMergeIdle
    /\ p_pc = "call"
    /\ p_text \in ParseTexts
    /\ p_res = <<>>

\* RobustJsonParser().parse(p_text) returns p_res
Parse ==
    /\ p_pc = "call"
    /\ p_res' = parse(p_text)
    /\ p_pc' = "done"
    /\ UNCHANGED <<p_text, storeVars, mergeVars>>

NextParse == Parse

SpecParse == InitParse /\ [][NextParse]_vars

-----------------------------------------------------------------------------
(* Properties *)

IdsOf(items) == {items[i].id : i \in 1..Len(items)}

\* the position of id in items
PosOf(items, id) == CHOOSE k \in 1..Len(items) : items[k].id = id

\* C1: whatever alpha and the two result lists are, the list retrieval
\* returns (hybrid_merge, then the truncation) has at most 3 elements and at
\* most as many as there are distinct identifiers in the two lists.
C1_RecallLengthBounded ==
    m_pc = "done" =>
        /\ Len(m_top) <= 3
        /\ Len(m_top) <= Cardinality(IdsOf(m_vec) \cup IdsOf(m_kw))

\* more than three distinct identifiers were fused and three were returned
C1_Witness == m_pc = "done" /\ Len(m_out) > 3 /\ Len(m_top) = 3

\* C2: an item found by both the similarity search and the keyword scan is
\* in the fused list exactly once, and the list is sorted by a score that for
\* this item is alpha * (1 - nativeScore) + (1 - alpha) * (keyword position
\* from 1 / number of keyword results).
C2_SharedItemOnceWithSummedScore ==
    m_pc = "done" =>
        \A i \in 1..Len(m_vec), j \in 1..Len(m_kw) :
            m_vec[i].id = m_kw[j].id =>
                LET id == m_vec[i].id
                    at == {k \in 1..Len(m_out) : m_out[k].id = id}
                IN  /\ Cardinality(at) = 1
                    /\ m_scores[id] =
                          m_alpha * (ScoreDen - m_vec[i].score) * Len(m_kw)
                          + (AlphaDen - m_alpha) * j * ScoreDen
                    /\ \A k \in at, l \in 1..Len(m_out) :
                          /\ l < k => m_scores[m_out[l].id] >= m_scores[id]
                          /\ l > k => m_scores[m_out[l].id] <= m_scores[id]

\* an item is in both lists, both its contributions count, and other items
\* are sorted around it
C2_Witness ==
    /\ m_pc = "done" /\ m_alpha > 0 /\ m_alpha < AlphaDen
    /\ \E i \in 1..Len(m_vec), j \in 1..Len(m_kw) :
          /\ m_vec[i].id = m_kw[j].id
          /\ m_vec[i].score < ScoreDen
          /\ PosOf(m_out, m_vec[i].id) > 1
          /\ PosOf(m_out, m_vec[i].id) < Len(m_out)

\* C3: with alpha = 0 the keyword results appear in the fused list in their
\* keyword rank order, an earlier-ranked keyword result ahead of every
\* later-ranked one, and the similarity scores do not influence the order.
C3_AlphaZeroKeywordRankOrder ==
    (m_pc = "done" /\ m_alpha = 0) =>
        /\ \A i \in 1..Len(m_kw), j \in 1..Len(m_kw) :
              i < j => PosOf(m_out, m_kw[i].id) < PosOf(m_out, m_kw[j].id)
        /\ Ids(m_out) = Ids(hybrid_merge(
                 [i \in 1..Len(m_vec) |-> [m_vec[i] EXCEPT !.score = 0]], m_kw, 0))

\* C4: with alpha = 1 the keyword contribution of every item is zero, an
\* item found only by the keyword scan has score 0, and the fused list is in
\* descending order of the similarity contribution 1 - nativeScore.
SimilarityContribution(id) ==
    IF \E i \in 1..Len(m_vec) : m_vec[i].id = id
    THEN ScoreDen - m_vec[PosOf(m_vec, id)].score
    ELSE 0

C4_AlphaOneSimilarityOrder ==
    (m_pc = "done" /\ m_alpha = AlphaDen) =>
        /\ \A id \in IdsOf(m_kw) \ IdsOf(m_vec) : m_scores[id] = 0
        /\ \A k \in 1..Len(m_out), l \in 1..Len(m_out) :
              SimilarityContribution(m_out[k].id) > SimilarityContribution(m_out[l].id)
                  => k < l

\* two similarity results with different scores and a keyword-only result
C4_Witness ==
    /\ m_pc = "done" /\ m_alpha = AlphaDen
    /\ IdsOf(m_kw) \ IdsOf(m_vec) # {}
    /\ IdsOf(m_kw) \cap IdsOf(m_vec) # {}
    /\ \E i \in 1..Len(m_vec), j \in 1..Len(m_vec) : m_vec[i].score > m_vec[j].score


\* the episodes stored for user u
StoredIds(u) ==
    IF get_collection_name(u) \in DOMAIN store
    THEN IdsOf(store[get_collection_name(u)])
    ELSE {}

\* the records of the answer of scroll a reader holds
KeywordRecords(p) ==
    IF keyword_results[p] = <<>> THEN <<>> ELSE keyword_results[p][1].list

\* the memories the episodic_recall of reader p is about to return
Returning(p) ==
    IF pc[p] = "merge"
    THEN episodic_recall(vector_results[p], keyword_results[p], r_alpha[p]).memories
    ELSE <<>>

\* C5: two different user ids have different collection names, the name
\* being the fixed prefix, "_" and the user id; an episode written under a
\* user id is stored in that user's collection only, and a read under one
\* user id (episodic_recall, also when episodic_system_prompt calls it) never
\* gets from the store, and never returns, an episode written under another.
C5_TenantIsolation ==
    /\ \A u1 \in UserIds, u2 \in UserIds :
          u1 # u2 => get_collection_name(u1) # get_collection_name(u2)
    /\ \A u \in UserIds : get_collection_name(u) = "memory_orb_" \o u
    /\ \A u \in UserIds : \A id \in StoredIds(u) : owner[id] = u
    /\ \A p \in Procs :
          op[p] \in {"recall", "prompt"} =>
              \A id \in IdsOf(vector_results[p]) \cup IdsOf(KeywordRecords(p))
                        \cup IdsOf(Returning(p)) : owner[id] = uid[p]

\* both users have written, and a read under u2 holds what the similarity
\* search and the keyword scan found
C5_Witness ==
    /\ \E id \in DOMAIN owner : owner[id] = "u1"
    /\ \E p \in Procs :
          /\ op[p] = "recall" /\ uid[p] = "u2" /\ pc[p] = "merge"
          /\ Len(vector_results[p]) > 0
          /\ Len(KeywordRecords(p)) > 0

\* C6: when the embedding capability is unreachable or answers with a
\* non-success status, the write ends with an error for its caller and has
\* stored nothing: the failing step leaves the store as it is, the points of
\* a collection change only in the last step of a write that returns
\* normally, and every stored point has a vector.
StoredWithVector(st) ==
    \A c \in DOMAIN st : \A i \in 1..Len(st[c]) : st[c][i].vector # NoVector

C6_EmbeddingFailureWritesNothing ==
    [][/\ \A p \in Procs :
             (pc[p] = "embed" /\ pc'[p] = "failed") =>
                 /\ store' = store
                 /\ err'[p] # NoError
       /\ \A c \in DOMAIN store :
             /\ c \in DOMAIN store'
             /\ store'[c] # store[c] =>
                   \E p \in Procs : pc[p] = "upsert" /\ pc'[p] = "done"
       /\ StoredWithVector(store')]_vars

\* a write has failed for its caller on the embedding capability while
\* points were stored
C6_Witness ==
    \E p \in Procs :
        /\ pc[p] = "failed"
        /\ err[p] \in {"ConnectionError", "Exception: Ollama API: down"}
        /\ AllIds(store) # {}

\* C7: RobustJsonParser.parse returns, for an answer with prose around one
\* JSON object, exactly that object, and for an answer without a "{" "}"
\* pair a draft with an error field and the raw text.
JsonSamples ==
    { [text |-> <<"{", "}">>, object |-> <<>>],
      [text |-> <<"{", "\"", "a", "\"", ":", "1", "}">>, object |-> [a |-> 1]],
      [text |-> <<"{", "\"", "a", "\"", ":", "{", "}", "}">>,
       object |-> [a |-> <<>>]] }

PlainProse == { <<>>, <<"x">>, <<"x", "y">> }

HasBracePair(text) ==
    \E i \in 1..Len(text), j \in 1..Len(text) :
        i < j /\ text[i] = "{" /\ text[j] = "}"

C7_ParseRecovery ==
    p_pc = "done" =>
        /\ \A pre \in PlainProse, post \in PlainProse, js \in JsonSamples :
              p_text = pre \o js.text \o post => p_res = js.object
        /\ ~HasBracePair(p_text) =>
              /\ "error" \in DOMAIN p_res
              /\ p_res.raw = p_text

\* C8: every stored episode has the four reflection fields, and a field the
\* Reflector could not give (all four when its output did not parse) holds
\* "N/A".  No reflection parses here (json_loads), so no field is given.
C8_SentinelFields ==
    \A c \in DOMAIN store : \A i \in 1..Len(store[c]) :
        LET payload == store[c][i].payload
        IN  /\ {"context_tags", "conversation_summary", "what_worked",
                "what_to_avoid"} \subseteq DOMAIN payload
            /\ payload.conversation_summary = "N/A"
            /\ payload.what_worked = "N/A"
            /\ payload.what_to_avoid = "N/A"
            /\ payload.context_tags \in {<<"N/A">>}

\* C9: once the similarity search and the keyword scan have answered,
\* episodic_system_prompt returns: the directive without memory exactly when
\* they found nothing, and otherwise a directive that renders the summaries
\* of the results after the first as history, three of them when three or
\* more further results were found.
C9_DirectiveFromTopResults ==
    [][\A p \in Procs :
          (op[p] = "prompt" /\ pc[p] = "merge" /\ pc'[p] # "merge") =>
              LET found == IdsOf(vector_results[p]) \cup IdsOf(KeywordRecords(p))
              IN  /\ pc'[p] = "done"
                  /\ ret'[p].content = GenericDirective <=> found = {}
                  /\ found # {} =>
                        Len(ret'[p].history) = Min(3, Cardinality(found) - 1)]_vars

\* C10: under any interleaving of add_episodic_memory calls a user's
\* collection is created by the first write that finds it absent, so that no
\* write fails for want of init_user_collection, which creates it, and it
\* holds exactly the points of the writes completed for that user: none is
\* lost.
C10_NoCompletedWriteLost ==
    /\ \A u \in UserIds : StoredIds(u) = {id \in DOMAIN owner : owner[id] = u}
    /\ \A p \in Procs :
          pc[p] = "failed" =>
              err[p] \notin {import_memory_v2.error,
                             init_user_collection(store, "").error}

====
